---- MODULE Spec2Model ----
(***************************************************************************)
(* Evolutionary homeostasis simulation: Organism (organism.py), the        *)
(* generation loop (evolutionary_loop.py, environment.py) and the leap     *)
(* detector (monitor.py).                                                  *)
(*                                                                         *)
(* Reals are fixed point.  Homeostatic values are in units of 1/200 (the   *)
(* least unit in which 0.66, 0.66*1.25, 0.5 and 0.5*1.25 are whole), so    *)
(* squared deviations and cumulative_discrepancy are in units of 1/40000.  *)
(* Genes are in units of 1/2, cohesion and accuracy in units of 1/100.     *)
(***************************************************************************)
EXTENDS Integers, Sequences, FiniteSets, TLC

VARIABLES
  org,        \* SpecOrg: one Organism driven through its public methods
  lastCall,   \* SpecOrg: the last method called on org and what it returned
  nCalls,     \* SpecOrg: how many gain_resource / trigger_error calls were made so far
  det,        \* SpecLeap: an EvolutionaryLeapDetector (configuration, _coh_ring, _best_coh)
  leapLog,    \* SpecLeap: the lines of the leap log file
  lastCheck,  \* SpecLeap: the last update_and_check call: arguments, the window and
              \*   best cohesion it found, and what it returned
  fed,        \* SpecLeap: calls made so far, and the constant run the detector started with
  pc,         \* Spec: where run_simulation is
  env,        \* Spec: Environment.population_size and genome_size, and the loop's
              \*   generations and cycles_per_generation
  organisms,  \* Spec: Environment.organisms
  interactions, \* Spec: Monitor._interactions
  history,    \* Spec: Environment.history["generation_data"]
  csvRows,    \* Spec: the rows of the generation-summary file
  loop,       \* Spec: the loop variables gen, cycle and the organism reached in the cycle
  evo,        \* Spec: the locals of evolve_population: parents, next_generation, and
              \*   which branch chose the parents
  overAtStart, \* Spec: whether every organism was above the hard ceiling when the
              \*   generation's first cycle began
  attempted   \* Spec: how many times run_generation_cycle has presented an Oracle
              \*   problem to an organism in the current generation

orgVars == <<org, lastCall, nCalls>>
leapVars == <<det, leapLog, lastCheck, fed>>
simVars == <<pc, env, organisms, interactions, history, csvRows, loop, evo, overAtStart,
             attempted>>

vars == <<org, lastCall, nCalls, det, leapLog, lastCheck, fed,
          pc, env, organisms, interactions, history, csvRows, loop, evo, overAtStart,
          attempted>>

----------------------------------------------------------------------------
(* Units *)

\* homeostatic values: 1.0 is HUnit
HUnit == 200
\* cumulative_discrepancy: 1.0 is DUnit = HUnit^2
DUnit == HUnit * HUnit

----------------------------------------------------------------------------
(* Bounds of the model *)

\* SpecOrg: process_cycle is called on a living organism at most up to this age
MaxAge == 33
\* SpecOrg: at most this many gain_resource calls
MaxGains == 1
\* SpecOrg: at most this many runs of trigger_error calls
MaxErrRuns == 1
\* SpecLeap: detectors are built with window up to this, and the wide detector is
\* called while it holds at most this many samples
MaxWindow == 6
\* Spec: population_size is in 0..MaxPop
MaxPop == 2
\* Spec: the Oracle draws its operands from 1..MaxOperand
MaxOperand == 2
\* SpecMonitor: the interaction buffer holds at most this many interactions
MaxInteractions == 4
\* SpecCross: crossover_and_mutate is called for genome sizes 1..MaxGenome
MaxGenome == 3
\* SpecLate: the run is taken up after this many cycles in which no organism met
\* the Oracle, and goes on for LateSpan cycles more
QuietCycles == 50
LateSpan == 8

----------------------------------------------------------------------------
(* organism.py: Organism *)

\* the two homeostatic variables
HVars == {"compute_load", "signal_integrity"}

TargetLo(v) == IF v = "compute_load" THEN 30 * HUnit ELSE 70 * HUnit
TargetHi(v) == IF v = "compute_load" THEN 95 * HUnit ELSE 100 * HUnit
PressureDirection(v) == IF v = "compute_load" THEN 1 ELSE -1
\* 0.66 and 0.5
PressureRate(v) == IF v = "compute_load" THEN (66 * HUnit) \div 100 ELSE HUnit \div 2
InitCurrent(v) == IF v = "compute_load" THEN 45 * HUnit ELSE 85 * HUnit

\* Organism.__init__ with the genome drawn by the caller
NewOrganism(genome) ==
  [ current |-> [v \in HVars |-> InitCurrent(v)],
    genome |-> genome,
    is_alive |-> TRUE,
    cumulative_discrepancy |-> 0,
    age |-> 0 ]

\* Deviation with the square forgotten and the difference taken the same way round
\* on both sides of the band
DeviationUnsquared(v, cur) ==
  IF cur < TargetLo(v) THEN cur - TargetLo(v)
  ELSE IF cur > TargetHi(v) THEN cur - TargetHi(v)
  ELSE 0

\* one term of calculate_discrepancy
Deviation(v, cur) ==
  IF cur < TargetLo(v) THEN (TargetLo(v) - cur) * (TargetLo(v) - cur)
  ELSE IF cur > TargetHi(v) THEN (cur - TargetHi(v)) * (cur - TargetHi(v))
  ELSE 0

calculate_discrepancy(current) ==
  Deviation("compute_load", current["compute_load"])
    + Deviation("signal_integrity", current["signal_integrity"])

\* the pressure loop body of process_cycle: delta = d * r, times 1.25 outside the band
Pressured(v, cur) ==
  LET delta == PressureDirection(v) * PressureRate(v)
      amplified == IF cur < TargetLo(v) \/ cur > TargetHi(v)
                   THEN (delta * 5) \div 4 ELSE delta
  IN cur + amplified

HardCeiling == 4500 * DUnit
SoftCeiling == 2500 * DUnit
ErrorPenalty == 50 * DUnit

\* the hard-ceiling check left out
HardCheckSkipped(o) == o.is_alive

\* process_cycle, first statement: is_alive after the hard-ceiling check, which only
\* ever clears it
HardCheck(o) ==
  IF o.cumulative_discrepancy > HardCeiling THEN FALSE ELSE o.is_alive

\* process_cycle with the age incremented before the checks
process_cycleAgesFirst(o) ==
  LET alive1 == HardCheck(o)
  IN IF ~alive1
     THEN [o EXCEPT !.is_alive = FALSE, !.age = o.age + 1]
     ELSE LET cur2 == [v \in HVars |-> Pressured(v, o.current[v])]
              cd2 == o.cumulative_discrepancy + calculate_discrepancy(cur2)
          IN [o EXCEPT !.age = o.age + 1,
                       !.current = cur2,
                       !.cumulative_discrepancy = cd2,
                       !.is_alive = (cd2 <= SoftCeiling)]

\* process_cycle without the early return: the pressures are applied to an
\* organism the hard-ceiling check has just killed
process_cyclePressuresDoomed(o) ==
  LET alive1 == HardCheck(o)
  IN IF ~o.is_alive
     THEN o
     ELSE IF ~alive1
     THEN [o EXCEPT !.is_alive = FALSE,
                    !.current = [v \in HVars |-> Pressured(v, o.current[v])]]
     ELSE LET cur2 == [v \in HVars |-> Pressured(v, o.current[v])]
              cd2 == o.cumulative_discrepancy + calculate_discrepancy(cur2)
          IN [o EXCEPT !.age = o.age + 1,
                       !.current = cur2,
                       !.cumulative_discrepancy = cd2,
                       !.is_alive = (cd2 <= SoftCeiling)]

\* process_cycle with the hard ceiling in the check that ends the cycle
process_cycleSoftAtHard(o) ==
  LET alive1 == HardCheck(o)
  IN IF ~alive1
     THEN [o EXCEPT !.is_alive = FALSE]
     ELSE LET cur2 == [v \in HVars |-> Pressured(v, o.current[v])]
              cd2 == o.cumulative_discrepancy + calculate_discrepancy(cur2)
          IN [o EXCEPT !.age = o.age + 1,
                       !.current = cur2,
                       !.cumulative_discrepancy = cd2,
                       !.is_alive = (cd2 <= HardCeiling)]

process_cycle(o) ==
  LET alive1 == HardCheck(o)
  IN IF ~alive1
     THEN [o EXCEPT !.is_alive = FALSE]
     ELSE LET cur2 == [v \in HVars |-> Pressured(v, o.current[v])]
              cd2 == o.cumulative_discrepancy + calculate_discrepancy(cur2)
          IN [o EXCEPT !.age = o.age + 1,
                       !.current = cur2,
                       !.cumulative_discrepancy = cd2,
                       !.is_alive = (cd2 <= SoftCeiling)]

\* gain_resource where a reward that is applied also sets is_alive
gain_resourceRevives(o, resource_type, amount) ==
  IF resource_type \in HVars
  THEN LET c == IF resource_type = "compute_load"
                THEN o.current[resource_type] - amount
                ELSE o.current[resource_type] + amount
       IN [o EXCEPT !.current[resource_type] = c, !.is_alive = TRUE]
  ELSE o

gain_resource(o, resource_type, amount) ==
  IF resource_type = "compute_load"
  THEN LET c == o.current[resource_type] - amount
       IN [o EXCEPT !.current[resource_type] =
                      IF c < TargetLo(resource_type) THEN TargetLo(resource_type) ELSE c]
  ELSE IF resource_type = "signal_integrity"
  THEN LET c == o.current[resource_type] + amount
       IN [o EXCEPT !.current[resource_type] =
                      IF c > TargetHi(resource_type) THEN TargetHi(resource_type) ELSE c]
  ELSE o

\* trigger_error killing the organism it pushes over the hard ceiling
trigger_errorKills(o) ==
  [o EXCEPT !.cumulative_discrepancy = @ + ErrorPenalty,
            !.is_alive = o.is_alive /\ o.cumulative_discrepancy + ErrorPenalty <= HardCeiling]

\* trigger_error adding the penalty twice
trigger_errorTwice(o) ==
  [o EXCEPT !.cumulative_discrepancy = o.cumulative_discrepancy + 2 * ErrorPenalty]

trigger_error(o) ==
  [o EXCEPT !.cumulative_discrepancy = o.cumulative_discrepancy + ErrorPenalty]

RECURSIVE Dot(_, _, _)
Dot(data, genome, i) ==
  IF i > Len(data) THEN 0 ELSE data[i] * genome[i] + Dot(data, genome, i + 1)

\* in gene units (1/2)
solve_problem(o, problem_data) ==
  IF Len(problem_data) > Len(o.genome) THEN 0 ELSE Dot(problem_data, o.genome, 1)

\* k >= 1 consecutive calls of trigger_error, composed by halves; the test o = o
\* has o evaluated before the evaluation goes deeper
RECURSIVE TriggerErrors(_, _)
TriggerErrors(o, k) ==
  IF k > 1 /\ o = o
  THEN TriggerErrors(TriggerErrors(o, k \div 2), k - k \div 2)
  ELSE trigger_error(o)

----------------------------------------------------------------------------
(* oracle.py: HumanInterfaceOracle *)

ProblemTypes == {"math_problem", "logic_problem"}

resource_map(problem_type) ==
  IF problem_type = "math_problem" THEN "compute_load" ELSE "signal_integrity"

get_reward_amount(resource_type) ==
  IF resource_type = "compute_load" THEN 35 * HUnit
  ELSE IF resource_type = "signal_integrity" THEN 30 * HUnit
  ELSE 0

----------------------------------------------------------------------------
(* monitor.py: EvolutionaryLeapDetector *)

\* cohesion and accuracy: 1.0 is CUnit
CUnit == 100
\* Python's None where a number is expected (cohesion_mean, accuracy, _best_coh)
None == -1

Max(a, b) == IF a >= b THEN a ELSE b
Min(a, b) == IF a <= b THEN a ELSE b

DefaultWindow == 20
\* z_min = 2.0
DefaultZMin == 2
\* delta_min = 0.08
DefaultDeltaMin == (8 * CUnit) \div 100

\* EvolutionaryLeapDetector.__init__
NewDetector(window, acc_floor) ==
  [ window |-> window,
    z_min |-> DefaultZMin,
    delta_min |-> DefaultDeltaMin,
    acc_floor |-> acc_floor,
    coh_ring |-> <<>>,
    best_coh |-> None ]

\* the attributes __init__ sets on the detector; log_path is set on Monitor only
DetectorAttrs == {"window", "z_min", "delta_min", "acc_floor", "_coh_ring", "_best_coh"}

NoLeap == [type |-> "None"]

\* RingAppend starting the ring over when it is full
RingAppendRestarts(ring, v, window) ==
  IF window = 0 THEN ring
  ELSE IF Len(ring) >= window THEN <<v>>
  ELSE Append(ring, v)

\* deque(maxlen=window).append
RingAppend(ring, v, window) ==
  IF window = 0 THEN ring
  ELSE IF Len(ring) >= window THEN Append(Tail(ring), v)
  ELSE Append(ring, v)

\* _append
DetAppend(d, v) ==
  IF v # None THEN [d EXCEPT !.coh_ring = RingAppend(d.coh_ring, v, d.window)] ELSE d

\* WarmThreshold with min for max
WarmThresholdMin(window) == Min(5, window \div 2)

\* max(5, int(0.5 * self.window))
WarmThreshold(window) == Max(5, window \div 2)

RECURSIVE SeqSum(_)
SeqSum(q) == IF q = <<>> THEN 0 ELSE Head(q) + SeqSum(Tail(q))

RECURSIVE SeqSumSq(_)
SeqSumSq(q) == IF q = <<>> THEN 0 ELSE Head(q) * Head(q) + SeqSumSq(Tail(q))

\* ZNumer with the difference taken the other way round: mu - cohesion_mean
ZNumerFlipped(recent, c) == SeqSum(recent) - Len(recent) * c

\* n * (cohesion_mean - mu), in cohesion units
ZNumer(recent, c) == Len(recent) * c - SeqSum(recent)
\* (n * sigma)^2, in squared cohesion units
ZVar(recent) == Len(recent) * SeqSumSq(recent) - SeqSum(recent) * SeqSum(recent)

\* 1 / (eps * CUnit) with eps = 1e-6
EpsInv == 1000000 \div CUnit

\* z >= zmin for z = (c - mu) / (sigma + eps), zmin a whole number >= 1:
\*   D / (sqrt(V) + n*e) >= zmin   with D = ZNumer, V = ZVar, e = 1/EpsInv
\*   <=>  D >= 1  /\  D^2 - zmin^2 V >= (2 D zmin n EpsInv - zmin^2 n^2) / EpsInv^2
ZAtLeast(recent, c, zmin) ==
  LET n == Len(recent)
      D == ZNumer(recent, c)
      W == D * D - zmin * zmin * ZVar(recent)
      num == 2 * D * zmin * n * EpsInv - zmin * zmin * n * n
  IN /\ D >= 1
     /\ W >= (num + EpsInv * EpsInv - 1) \div (EpsInv * EpsInv)

\* improved_vs_best
ImprovedVsBest(best, c, delta_min) == best = None \/ c >= best + delta_min

\* acc_pass
AccPass(accuracy, acc_floor) == accuracy = None \/ accuracy >= acc_floor

\* is_leap with "and" between the two criteria
IsLeapBoth(acc_pass, z_pass, improved_vs_best) == acc_pass /\ z_pass /\ improved_vs_best

\* is_leap
IsLeap(acc_pass, z_pass, improved_vs_best) == acc_pass /\ (z_pass \/ improved_vs_best)

\* the leap_info dict; mean, standard deviation and z-score are kept as the
\* baseline window they are computed from
LeapInfo(gen, c, accuracy, recent, z_pass, improved_vs_best, acc_pass) ==
  [ type |-> "evolutionary_leap",
    generation |-> gen,
    cohesion |-> c,
    accuracy |-> accuracy,
    baseline |-> recent,
    reason |-> (IF z_pass THEN {"z"} ELSE {})
                 \cup (IF improved_vs_best THEN {"best"} ELSE {})
                 \cup (IF ~acc_pass THEN {"low-accuracy"} ELSE {}) ]

\* the try block: open(self.log_path, "a") raises AttributeError when the detector
\* has no log_path, and the except clause swallows it
LogWrite(log, leap_info) ==
  IF "log_path" \in DetectorAttrs THEN Append(log, leap_info) ELSE log

\* update_and_check: the detector, the log file and the returned value after the call
update_and_check(d, log, gen, c, accuracy) ==
  IF c = None
  THEN [det |-> DetAppend(d, c), log |-> log, ret |-> NoLeap]
  ELSE
    LET recent == d.coh_ring
        d1 == DetAppend(d, c)
    IN IF Len(recent) < WarmThreshold(d.window)
       THEN [det |-> [d1 EXCEPT !.best_coh = IF d.best_coh = None THEN c
                                              ELSE Max(d.best_coh, c)],
             log |-> log, ret |-> NoLeap]
       ELSE
         LET improved_vs_best == ImprovedVsBest(d.best_coh, c, d.delta_min)
             z_pass == ZAtLeast(recent, c, d.z_min)
             acc_pass == AccPass(accuracy, d.acc_floor)
             is_leap == IsLeap(acc_pass, z_pass, improved_vs_best)
             d2 == IF d.best_coh = None \/ c > d.best_coh
                   THEN [d1 EXCEPT !.best_coh = c] ELSE d1
             leap_info == LeapInfo(gen, c, accuracy, recent, z_pass,
                                   improved_vs_best, acc_pass)
         IN IF ~is_leap
            THEN [det |-> d2, log |-> log, ret |-> NoLeap]
            ELSE [det |-> d2, log |-> LogWrite(log, leap_info), ret |-> leap_info]

----------------------------------------------------------------------------
(* the detectors and arguments of SpecLeap *)

\* windows detectors are built with: from one below the five samples a warm
\* detector needs up to MaxWindow, where five samples make it warm, and a wide
\* one that half the window makes warm
Windows == (4..MaxWindow) \cup {12}
\* accuracy floors detectors are built with: the default 0.0, and 0.5
AccFloors == {0, CUnit \div 2}
\* cohesion_mean arguments: undefined, 0.4, 0.9, 1.0 (no two differ by exactly
\* delta_min, where binary floating point and exact arithmetic could part)
CohArgs == {None, (4 * CUnit) \div 10, (9 * CUnit) \div 10, CUnit}
\* accuracy arguments: undefined, and 0.0 (which passes the floor 0.0 and fails 0.5)
AccArgs == {None, 0}
\* generation arguments
GenArgs == {1}

NoCheck ==
  [gen |-> 0, cohesion |-> None, accuracy |-> None, recent |-> <<>>, best |-> None,
   ret |-> NoLeap]
NothingFed == [first |-> None, run |-> 0, since |-> 0]
\* two or more calls have followed the constant run: it is no longer of interest
FedPast == [first |-> None, run |-> 0, since |-> 2]

\* the cohesion of the first call, how many of the first calls passed that same
\* defined cohesion (counted up to window + 1), and how many calls followed that
\* run (0, 1, or 2 for more, when the run is forgotten)
Feed(f, c, window) ==
  IF f.run = 0 /\ f.since = 0
  THEN IF c # None THEN [first |-> c, run |-> 1, since |-> 0] ELSE FedPast
  ELSE IF f.since = 0 /\ c = f.first
  THEN [f EXCEPT !.run = Min(f.run + 1, window + 1)]
  ELSE IF f.since = 0
  THEN [f EXCEPT !.since = 1]
  ELSE FedPast

----------------------------------------------------------------------------
(* environment.py, evolutionary_loop.py, monitor.py (Monitor): run_simulation *)

\* GENOME_SIZE of main.py
GenomeSize == 2

\* genes of the organisms initialize_population draws (unit 1/2): 0.5
InitGenes == {1}
\* the noise a mutation adds to a gene (unit 1/2): 0.5, one standard deviation
Noise == {1}

\* Environment(population_size, GENOME_SIZE) and
\* EvolutionaryLoop(environment, generations, cycles_per_generation)
NewEnv(population_size, generations, cycles_per_generation) ==
  [ population_size |-> population_size,
    genome_size |-> GenomeSize,
    generations |-> generations,
    cycles_per_generation |-> cycles_per_generation ]

\* the experiments run: every population size up to MaxPop for one and for two
\* generations of one cycle, two organisms for one generation of two cycles, one
\* organism more than MaxPop for one generation of one cycle, and one organism
\* for no generation and for one generation of no cycle
Experiments ==
  {NewEnv(n, g, 1) : n \in 0..MaxPop, g \in {1, 2}}
    \cup {NewEnv(2, 1, 2), NewEnv(MaxPop + 1, 1, 1)}
    \cup {NewEnv(1, 0, 1), NewEnv(1, 1, 0)}

NoEvo == [parents |-> <<>>, branch |-> "none"]

\* the state of the simulation's variables in the specifications that do not run it
SimIdle ==
  /\ pc = "idle"
  /\ env = NewEnv(0, 0, 0)
  /\ organisms = <<>>
  /\ interactions = <<>>
  /\ history = <<>>
  /\ csvRows = <<>>
  /\ loop = [gen |-> 0, cycle |-> 0, idx |-> 1]
  /\ evo = NoEvo
  /\ overAtStart = FALSE
  /\ attempted = 0

\* the state of the single-organism variables in the other specifications
OrgIdle ==
  /\ org = NewOrganism(<<>>)
  /\ lastCall = [op |-> "__init__", ret |-> 0]
  /\ nCalls = [gain |-> 0, err |-> 0]

\* the populations initialize_population can draw
Genomes(genome_size) == [1..genome_size -> InitGenes]
Populations(e) ==
  [1..e.population_size -> {NewOrganism(g) : g \in Genomes(e.genome_size)}]

\* present_problem: problem type, operands, rewarded resource, correct answer
OracleProblems ==
  { [ problem_type |-> t, p_data |-> <<a, b>>, r_type |-> resource_map(t),
      correct_ans |-> IF t = "math_problem" THEN a + b ELSE a * 2 - b ]
    : t \in ProblemTypes, a \in 1..MaxOperand, b \in 1..MaxOperand }

\* abs(proposed_solution - correct_ans) < 0.1 for a problem type that is judged;
\* proposed is in gene units (1/2), so the difference is a whole number of halves
IsCorrect(problem, proposed) ==
  /\ problem.problem_type \in {"math_problem", "logic_problem"}
  /\ LET diff2 == proposed - 2 * problem.correct_ans
     IN 10 * (IF diff2 < 0 THEN -diff2 ELSE diff2) < 2

\* the Oracle interaction of run_generation_cycle on organism o
Interact(o, problem) ==
  IF IsCorrect(problem, solve_problem(o, problem.p_data))
  THEN gain_resource(o, problem.r_type, get_reward_amount(problem.r_type))
  ELSE trigger_error(o)

\* Monitor._scale_for
scale_for(problem_type) ==
  IF problem_type \in {"math_problem", "logic_problem"} THEN 20 ELSE 1

\* Monitor.record_interaction: the buffer after the call.  proposed_solution is in
\* gene units (1/2), as solve_problem returns it, and so is abs_error; the cohesion
\* is rounded to its unit
record_interaction(its, problem_type, resource_type, correct_answer, proposed_solution, is_correct) ==
  LET diff2 == proposed_solution - 2 * correct_answer
      abs_error == IF diff2 < 0 THEN -diff2 ELSE diff2
      cohesion == Max(0, CUnit - (CUnit * abs_error) \div (2 * scale_for(problem_type)))
  IN Append(its, [ problem_type |-> problem_type,
                   resource_type |-> resource_type,
                   correct |-> is_correct,
                   abs_error |-> abs_error,
                   cohesion |-> cohesion ])

\* Monitor.reset_generation: the buffer after the call
reset_generation(its) == <<>>

\* x put into a sequence of numbers sorted ascending
RECURSIVE InsertAsc(_, _)
InsertAsc(sorted, x) ==
  IF sorted = <<>> THEN <<x>>
  ELSE IF Head(sorted) <= x THEN <<Head(sorted)>> \o InsertAsc(Tail(sorted), x)
  ELSE <<x>> \o sorted

RECURSIVE SortedAsc(_)
SortedAsc(q) == IF q = <<>> THEN <<>> ELSE InsertAsc(SortedAsc(Tail(q)), Head(q))

\* statistics.median: the middle of the sorted values, or the mean of the two
\* middle ones (rounded down to the unit)
Median(q) ==
  LET sorted == SortedAsc(q)
      n == Len(q)
  IN IF n % 2 = 1 THEN sorted[(n + 1) \div 2]
     ELSE (sorted[n \div 2] + sorted[n \div 2 + 1]) \div 2

\* generation_metrics with an undefined accuracy on an empty buffer
generation_metricsUndefinedAccuracy(its) ==
  IF its = <<>>
  THEN [n_interactions |-> 0, accuracy |-> None, mean_abs_error |-> None,
        cohesion_mean |-> None, cohesion_median |-> None]
  ELSE LET n == Len(its)
           correct == Cardinality({i \in 1..n : its[i].correct})
       IN [n_interactions |-> n,
           accuracy |-> (CUnit * correct) \div n,
           mean_abs_error |-> SeqSum([i \in 1..n |-> its[i].abs_error]) \div n,
           cohesion_mean |-> SeqSum([i \in 1..n |-> its[i].cohesion]) \div n,
           cohesion_median |-> Median([i \in 1..n |-> its[i].cohesion])]

\* Monitor.generation_metrics: the dict returned; it assigns to nothing.  Means
\* are rounded down to the unit
generation_metrics(its) ==
  IF its = <<>>
  THEN [n_interactions |-> 0, accuracy |-> 0, mean_abs_error |-> None,
        cohesion_mean |-> None, cohesion_median |-> None]
  ELSE LET n == Len(its)
           correct == Cardinality({i \in 1..n : its[i].correct})
       IN [n_interactions |-> n,
           accuracy |-> (CUnit * correct) \div n,
           mean_abs_error |-> SeqSum([i \in 1..n |-> its[i].abs_error]) \div n,
           cohesion_mean |-> SeqSum([i \in 1..n |-> its[i].cohesion]) \div n,
           cohesion_median |-> Median([i \in 1..n |-> its[i].cohesion])]

RECURSIVE SumOver(_, _, _)
SumOver(orgs, i, field) ==
  IF i > Len(orgs) THEN 0
  ELSE (IF field = "age" THEN orgs[i].age ELSE orgs[i].cumulative_discrepancy)
         + SumOver(orgs, i + 1, field)

\* a quotient kept as numerator and denominator
Avg(total, n) == [total |-> total, n |-> n]

\* the generation number run_simulation passes, numbered from 0
GenNumberFromZero(gen) == gen

\* the generation number run_simulation passes to log_generation_data: gen + 1
GenNumber(gen) == gen + 1

\* filter keeping the order
RECURSIVE Survivors(_)
Survivors(orgs) ==
  IF orgs = <<>> THEN <<>>
  ELSE IF Head(orgs).is_alive THEN <<Head(orgs)>> \o Survivors(Tail(orgs))
  ELSE Survivors(Tail(orgs))

\* x put into a sequence sorted by age descending, before its equals
RECURSIVE InsertByAgeBeforeEquals(_, _)
InsertByAgeBeforeEquals(sorted, x) ==
  IF sorted = <<>> THEN <<x>>
  ELSE IF Head(sorted).age > x.age
  THEN <<Head(sorted)>> \o InsertByAgeBeforeEquals(Tail(sorted), x)
  ELSE <<x>> \o sorted

\* x put into a sequence sorted by age descending, behind its equals
RECURSIVE InsertByAge(_, _)
InsertByAge(sorted, x) ==
  IF sorted = <<>> THEN <<x>>
  ELSE IF Head(sorted).age >= x.age THEN <<Head(sorted)>> \o InsertByAge(Tail(sorted), x)
  ELSE <<x>> \o sorted

\* sort(key=age, reverse=True): stable
RECURSIVE SortedByAgeDesc(_)
SortedByAgeDesc(orgs) ==
  IF orgs = <<>> THEN <<>>
  ELSE InsertByAge(SortedByAgeDesc(SubSeq(orgs, 1, Len(orgs) - 1)), orgs[Len(orgs)])

Prefix(q, n) == SubSeq(q, 1, Min(n, Len(q)))

\* max(2, int(population_size * 0.2))
NumParents(population_size) == Max(2, population_size \div 5)

\* int(len(parents) * 0.5)
ElitesToKeep(parents) == Len(parents) \div 2

\* the elitism loop carrying the parents themselves over
ElitesKeepState(parents) == [i \in 1..ElitesToKeep(parents) |-> parents[i]]

\* the elitism loop
Elites(parents) ==
  [i \in 1..ElitesToKeep(parents) |-> NewOrganism(parents[i].genome)]

\* the fill loop's condition with <= for <
FillNeededOffByOne(next_generation, population_size) ==
  Len(next_generation) <= population_size

\* the fill loop's condition
FillNeeded(next_generation, population_size) == Len(next_generation) < population_size

\* the crossover with the parents the other way round
CrossoverSwapped(genome1, genome2, point, genome_size) ==
  IF genome_size > 1
  THEN SubSeq(genome2, 1, point) \o SubSeq(genome1, point + 1, Len(genome1))
  ELSE genome1

\* single-point crossover of crossover_and_mutate
Crossover(genome1, genome2, point, genome_size) ==
  IF genome_size > 1
  THEN SubSeq(genome1, 1, point) \o SubSeq(genome2, point + 1, Len(genome2))
  ELSE genome1

CrossoverPoints(genome_size) == IF genome_size > 1 THEN 1..(genome_size - 1) ELSE {0}

\* the mutation loop: noise[i] is what is added to gene i, 0 when it is not mutated
Mutate(genome, noise) == [i \in 1..Len(genome) |-> genome[i] + noise[i]]

crossover_and_mutate(genome1, genome2, point, noise, genome_size) ==
  Mutate(Crossover(genome1, genome2, point, genome_size), noise)

\* the genomes one pass of the fill loop can produce: two parents drawn with
\* replacement, a crossover point, and the noise of the mutated genes
ChildGenomes(parents, genome_size) ==
  { crossover_and_mutate(parents[i1].genome, parents[i2].genome, point, noise,
                         genome_size)
    : i1 \in 1..Len(parents), i2 \in 1..Len(parents),
      point \in CrossoverPoints(genome_size),
      noise \in [1..genome_size -> {0} \cup Noise] }

\* the fill loop: every next generation it can end with
RECURSIVE Fill(_, _, _, _)
Fill(next_generation, population_size, parents, genome_size) ==
  IF FillNeeded(next_generation, population_size)
  THEN UNION { Fill(Append(next_generation, NewOrganism(g)), population_size,
                    parents, genome_size)
               : g \in ChildGenomes(parents, genome_size) }
  ELSE {next_generation}

\* the parents taken from the whole population, dead or alive
ParentsFromAll(orgs, population_size) ==
  Prefix(SortedByAgeDesc(orgs), NumParents(population_size))

\* the parents evolve_population breeds from
Parents(orgs, population_size) ==
  IF Survivors(orgs) # <<>>
  THEN Prefix(SortedByAgeDesc(Survivors(orgs)), NumParents(population_size))
  ELSE Prefix(SortedByAgeDesc(orgs), NumParents(population_size))

\* evolve_population: the populations it can leave, with the parents it bred from
\* and the branch it took
evolve_population(orgs, e) ==
  LET parents == Parents(orgs, e.population_size)
      branch == IF Survivors(orgs) # <<>> THEN "survivors" ELSE "extinction"
  IN IF parents = <<>>
     THEN { [organisms |-> p, parents |-> parents, branch |-> "reset"]
            : p \in Populations(e) }
     ELSE { [organisms |-> ng, parents |-> parents, branch |-> branch]
            : ng \in Fill(Elites(parents), e.population_size, parents, e.genome_size) }

----------------------------------------------------------------------------
(* Spec: run_simulation, step by step *)

Init ==
  /\ pc = "start"
  /\ env \in Experiments
  /\ organisms = <<>>
  /\ interactions = <<>>
  /\ history = <<>>
  /\ csvRows = <<>>
  /\ loop = [gen |-> 0, cycle |-> 0, idx |-> 1]
  /\ evo = NoEvo
  /\ overAtStart = FALSE
  /\ attempted = 0
  /\ det = NewDetector(DefaultWindow, 0)
  /\ leapLog = <<>>
  /\ lastCheck = NoCheck
  /\ fed = NothingFed
  /\ OrgIdle

\* GenerationEntry with the loop over generations running one generation more
GenerationEntryOneMore(gen) ==
  IF gen > env.generations THEN "done"
  ELSE IF env.cycles_per_generation = 0 \/ env.population_size = 0 THEN "log"
  ELSE "cycles"

\* where the for loop over generations goes on from generation number gen
GenerationEntry(gen) ==
  IF gen >= env.generations THEN "done"
  ELSE IF env.cycles_per_generation = 0 \/ env.population_size = 0 THEN "log"
  ELSE "cycles"

\* run_simulation up to the first generation: initialize_population
InitializePopulation ==
  /\ pc = "start"
  /\ organisms' \in Populations(env)
  /\ pc' = GenerationEntry(0)
  /\ UNCHANGED <<env, interactions, history, csvRows, loop, evo, overAtStart, attempted>>
  /\ UNCHANGED <<orgVars, leapVars>>

\* the body of run_generation_cycle's inner loop for the organism reached: a living
\* organism is cycled and then, with probability 0.25, meets the Oracle
OrganismStep ==
  /\ pc = "cycles"
  /\ LET o == organisms[loop.idx]
         cycled == process_cycle(o)
         last == loop.idx = Len(organisms)
         nextCycle == IF last THEN loop.cycle + 1 ELSE loop.cycle
     IN /\ \/ /\ ~o.is_alive
              /\ UNCHANGED <<organisms, attempted>>
           \/ /\ o.is_alive
              /\ organisms' = [organisms EXCEPT ![loop.idx] = cycled]
              /\ UNCHANGED attempted
           \/ /\ o.is_alive
              /\ \E problem \in OracleProblems :
                   organisms' = [organisms EXCEPT ![loop.idx] = Interact(cycled, problem)]
              /\ attempted' = attempted + 1
        /\ loop' = [loop EXCEPT !.idx = IF last THEN 1 ELSE loop.idx + 1,
                                !.cycle = nextCycle]
        /\ pc' = IF nextCycle >= env.cycles_per_generation THEN "log" ELSE "cycles"
        /\ overAtStart' =
             IF loop.cycle = 0 /\ loop.idx = 1
             THEN \A i \in 1..Len(organisms) :
                    organisms[i].cumulative_discrepancy > HardCeiling
             ELSE overAtStart
  /\ UNCHANGED <<env, interactions, history, csvRows, evo>>
  /\ UNCHANGED <<orgVars, leapVars>>

\* log_generation_data(gen + 1)
LogGenerationData ==
  /\ pc = "log"
  /\ pc' = "evolve"
  /\ IF organisms = <<>>
     THEN UNCHANGED <<history, csvRows, det, leapLog>>
     ELSE LET gen == GenNumber(loop.gen)
              n == Len(organisms)
              mon == generation_metrics(interactions)
              r == update_and_check(det, leapLog, gen, mon.cohesion_mean, mon.accuracy)
              record ==
                [ generation |-> gen,
                  average_age |-> Avg(SumOver(organisms, 1, "age"), n),
                  average_discrepancy |-> Avg(SumOver(organisms, 1, "cd"), n),
                  survivor_count |-> Len(Survivors(organisms)),
                  cohesion_mean |-> mon.cohesion_mean,
                  cohesion_median |-> mon.cohesion_median,
                  oracle_accuracy |-> mon.accuracy,
                  oracle_interactions |-> mon.n_interactions ]
          IN /\ det' = r.det
             /\ leapLog' = r.log
             /\ csvRows' = Append(csvRows,
                             [ row |-> record,
                               leap_flag |-> IF r.ret # NoLeap THEN 1 ELSE 0 ])
             /\ history' = Append(history, record)
  /\ UNCHANGED <<env, organisms, interactions, loop, evo, overAtStart, attempted>>
  /\ UNCHANGED <<orgVars, lastCheck, fed>>

\* evolve_population, and run_simulation going on to the next generation
EvolvePopulation ==
  /\ pc = "evolve"
  /\ \E r \in evolve_population(organisms, env) :
       /\ organisms' = r.organisms
       /\ evo' = [parents |-> r.parents, branch |-> r.branch]
  /\ loop' = [gen |-> loop.gen + 1, cycle |-> 0, idx |-> 1]
  /\ pc' = GenerationEntry(loop.gen + 1)
  /\ attempted' = 0
  /\ UNCHANGED <<env, interactions, history, csvRows, overAtStart>>
  /\ UNCHANGED <<orgVars, leapVars>>

Next ==
  \/ InitializePopulation
  \/ OrganismStep
  \/ LogGenerationData
  \/ EvolvePopulation

Spec == Init /\ [][Next]_vars

\* a test's setup before the first cycle of the run: trigger_error is called on the
\* next organism of the population until it is above the hard ceiling
ForceDiscrepancy ==
  /\ pc = "cycles"
  /\ loop.gen = 0
  /\ loop.cycle = 0
  /\ loop.idx = 1
  /\ \E i \in 1..Len(organisms) :
       /\ organisms[i].cumulative_discrepancy = 0
       /\ \A j \in 1..(i - 1) : organisms[j].cumulative_discrepancy > 0
       /\ organisms' = [organisms EXCEPT
                          ![i] = TriggerErrors(@, HardCeiling \div ErrorPenalty + 1)]
  /\ UNCHANGED <<pc, env, interactions, history, csvRows, loop, evo, overAtStart, attempted>>
  /\ UNCHANGED <<orgVars, leapVars>>

NextForced == Next \/ ForceDiscrepancy

SpecForced == Init /\ [][NextForced]_vars

\* log_generation_data(gen + 1) when the generation-summary file cannot be
\* written: EvolutionCSVLogger.append raises out of open or writerow, nothing
\* between there and the caller of run_simulation catches it, and the statements
\* after log_generation_row are not reached
LogGenerationDataWriteFails ==
  /\ pc = "log"
  /\ organisms # <<>>
  /\ pc' = "aborted"
  /\ LET mon == generation_metrics(interactions)
         r == update_and_check(det, leapLog, GenNumber(loop.gen), mon.cohesion_mean,
                               mon.accuracy)
     IN /\ det' = r.det
        /\ leapLog' = r.log
  /\ UNCHANGED <<env, organisms, interactions, history, csvRows, loop, evo,
                 overAtStart, attempted>>
  /\ UNCHANGED <<orgVars, lastCheck, fed>>

NextWriteFails == Next \/ LogGenerationDataWriteFails

SpecWriteFails == Init /\ [][NextWriteFails]_vars

\* evolve_population returning to run_simulation, which goes on from the next
\* generation number
EvolveReturns ==
  /\ pc = "evolve"
  /\ pc' = GenerationEntry(loop.gen + 1)

\* run_simulation run to its end: the interpreter goes on to the next statement
\* for as long as there is one.  The fairness of the evolve step is on its return;
\* that evolve_population has a result wherever it is called is for C24 to show
SpecLive ==
  /\ Spec
  /\ WF_vars(InitializePopulation)
  /\ WF_vars(OrganismStep)
  /\ WF_vars(LogGenerationData)
  /\ WF_pc(EvolveReturns)

----------------------------------------------------------------------------
(* SpecLeap: one detector, any sequence of update_and_check calls *)

InitLeap ==
  /\ det \in {NewDetector(w, f) : w \in Windows, f \in AccFloors}
  /\ leapLog = <<>>
  /\ lastCheck = NoCheck
  /\ fed = NothingFed
  /\ OrgIdle
  /\ SimIdle

\* a call of update_and_check; the wide detector is called until it holds more
\* than MaxWindow samples
CallUpdateAndCheck ==
  \E gen \in GenArgs, c \in CohArgs, accuracy \in AccArgs :
    LET r == update_and_check(det, leapLog, gen, c, accuracy)
    IN /\ Len(det.coh_ring) <= MaxWindow
       /\ det' = r.det
       /\ leapLog' = r.log
       /\ lastCheck' = [gen |-> gen, cohesion |-> c, accuracy |-> accuracy,
                        recent |-> det.coh_ring, best |-> det.best_coh, ret |-> r.ret]
       /\ fed' = Feed(fed, c, det.window)
       /\ UNCHANGED <<orgVars, simVars>>

NextLeap == CallUpdateAndCheck

SpecLeap == InitLeap /\ [][NextLeap]_vars

----------------------------------------------------------------------------
(* SpecOrg: one organism, any sequence of calls of its methods *)

\* genomes the organism under test is built with (gene unit 1/2)
OrgGenomes == {<<1, -1>>}
\* resource types passed to gain_resource, each with the Oracle's amount for it
OrgResources == HVars \cup {"unknown"}
\* operand tuples passed to solve_problem
OrgProblems == {<<1, 10>>, <<3, 2, 1>>}
\* lengths of the runs of consecutive trigger_error calls: one call, enough calls
\* to pass the soft ceiling from zero, enough to pass the hard ceiling from zero
ErrRunLengths == {1, SoftCeiling \div ErrorPenalty + 1, HardCeiling \div ErrorPenalty + 1}

InitOrg ==
  /\ org \in {NewOrganism(g) : g \in OrgGenomes}
  /\ lastCall = [op |-> "__init__", ret |-> 0]
  /\ nCalls = [gain |-> 0, err |-> 0]
  /\ det = NewDetector(DefaultWindow, 0)
  /\ leapLog = <<>>
  /\ lastCheck = NoCheck
  /\ fed = NothingFed
  /\ SimIdle

CallProcessCycle ==
  /\ org.is_alive => org.age < MaxAge
  /\ org' = process_cycle(org)
  /\ lastCall' = [op |-> "process_cycle", ret |-> 0]
  /\ UNCHANGED <<nCalls, leapVars, simVars>>

CallGainResource ==
  \E r \in OrgResources :
    /\ nCalls.gain < MaxGains
    /\ org' = gain_resource(org, r, get_reward_amount(r))
    /\ lastCall' = [op |-> "gain_resource", ret |-> 0]
    /\ nCalls' = [nCalls EXCEPT !.gain = @ + 1]
    /\ UNCHANGED <<leapVars, simVars>>

CallTriggerError ==
  \E k \in ErrRunLengths :
    /\ nCalls.err < MaxErrRuns
    /\ org' = TriggerErrors(org, k)
    /\ lastCall' = [op |-> "trigger_error", ret |-> k]
    /\ nCalls' = [nCalls EXCEPT !.err = @ + 1]
    /\ UNCHANGED <<leapVars, simVars>>

CallSolveProblem ==
  \E p \in OrgProblems :
    /\ org' = org
    /\ lastCall' = [op |-> "solve_problem", ret |-> solve_problem(org, p)]
    /\ UNCHANGED <<nCalls, leapVars, simVars>>

NextOrg ==
  \/ CallProcessCycle
  \/ CallGainResource
  \/ CallTriggerError
  \/ CallSolveProblem

SpecOrg == InitOrg /\ [][NextOrg]_vars

----------------------------------------------------------------------------
(* SpecMonitor: one Monitor, any sequence of calls on its interaction buffer *)

\* the interactions recorded: a judged problem answered exactly, one answered 2.0
\* off, and one answered 30.0 off, beyond the scale
RecordArgs ==
  { [problem_type |-> "math_problem", correct_answer |-> 3, proposed_solution |-> 6,
     is_correct |-> TRUE],
    [problem_type |-> "logic_problem", correct_answer |-> 1, proposed_solution |-> 6,
     is_correct |-> FALSE],
    [problem_type |-> "math_problem", correct_answer |-> 2, proposed_solution |-> 64,
     is_correct |-> FALSE] }

InitMonitor ==
  /\ det = NewDetector(DefaultWindow, 0)
  /\ leapLog = <<>>
  /\ lastCheck = NoCheck
  /\ fed = NothingFed
  /\ OrgIdle
  /\ SimIdle

CallRecordInteraction ==
  \E a \in RecordArgs :
    /\ Len(interactions) < MaxInteractions
    /\ interactions' = record_interaction(interactions, a.problem_type,
                         resource_map(a.problem_type), a.correct_answer,
                         a.proposed_solution, a.is_correct)
    /\ lastCall' = [op |-> "record_interaction", ret |-> 0]
    /\ UNCHANGED <<org, nCalls, leapVars>>
    /\ UNCHANGED <<pc, env, organisms, history, csvRows, loop, evo, overAtStart,
                   attempted>>

CallResetGeneration ==
  /\ interactions' = reset_generation(interactions)
  /\ lastCall' = [op |-> "reset_generation", ret |-> 0]
  /\ UNCHANGED <<org, nCalls, leapVars>>
  /\ UNCHANGED <<pc, env, organisms, history, csvRows, loop, evo, overAtStart,
                 attempted>>

CallGenerationMetrics ==
  /\ lastCall' = [op |-> "generation_metrics", ret |-> generation_metrics(interactions)]
  /\ UNCHANGED <<org, nCalls, leapVars, simVars>>

NextMonitor ==
  \/ CallRecordInteraction
  \/ CallResetGeneration
  \/ CallGenerationMetrics

SpecMonitor == InitMonitor /\ [][NextMonitor]_vars

----------------------------------------------------------------------------
(* SpecRecorded: run_simulation on an Environment whose Monitor has had an *)
(* interaction recorded before the run *)

\* environment.monitor.record_interaction(...) called on the Environment built,
\* before run_simulation
RecordBeforeRun ==
  /\ pc = "start"
  /\ interactions = <<>>
  /\ \E a \in RecordArgs :
       interactions' = record_interaction(interactions, a.problem_type,
                         resource_map(a.problem_type), a.correct_answer,
                         a.proposed_solution, a.is_correct)
  /\ UNCHANGED <<pc, env, organisms, history, csvRows, loop, evo, overAtStart, attempted>>
  /\ UNCHANGED <<orgVars, leapVars>>

NextRecorded == Next \/ RecordBeforeRun

SpecRecorded == Init /\ [][NextRecorded]_vars

----------------------------------------------------------------------------
(* SpecLate: the first generation of one organism late in its life: a run in *)
(* which the organism did not meet the Oracle in the first QuietCycles cycles *)

\* k passes of run_generation_cycle's inner loop over organism o in which the
\* Oracle is not met
RECURSIVE Cycles(_, _)
Cycles(o, k) ==
  IF k > 1 /\ o = o THEN Cycles(Cycles(o, k \div 2), k - k \div 2)
  ELSE IF k = 1 THEN process_cycle(o)
  ELSE o

LateEnv == NewEnv(1, 1, QuietCycles + LateSpan)

InitLate ==
  /\ pc = "cycles"
  /\ env = LateEnv
  /\ organisms \in {[i \in DOMAIN p |-> Cycles(p[i], QuietCycles)] : p \in Populations(env)}
  /\ loop = [gen |-> 0, cycle |-> QuietCycles, idx |-> 1]
  /\ interactions = <<>>
  /\ history = <<>>
  /\ csvRows = <<>>
  /\ evo = NoEvo
  /\ overAtStart = FALSE
  /\ attempted = 0
  /\ det = NewDetector(DefaultWindow, 0)
  /\ leapLog = <<>>
  /\ lastCheck = NoCheck
  /\ fed = NothingFed
  /\ OrgIdle

NextLate ==
  \/ OrganismStep
  \/ LogGenerationData
  \/ EvolvePopulation

SpecLate == InitLate /\ [][NextLate]_vars

----------------------------------------------------------------------------
(* SpecCross: crossover_and_mutate on any two parent genomes *)

\* genes of the parent genomes (unit 1/2): 0.5 and 2.0
CrossGenes == {1, 4}

InitCross ==
  /\ det = NewDetector(DefaultWindow, 0)
  /\ leapLog = <<>>
  /\ lastCheck = NoCheck
  /\ fed = NothingFed
  /\ OrgIdle
  /\ SimIdle

\* a call on an Environment of genome size genome_size with two parent genomes of
\* that length; random.randint draws point, and the mutation loop noise.  The
\* function keeps no state, so one call is made in a behaviour
CallCrossoverAndMutate ==
  \E genome_size \in 1..MaxGenome :
    \E genome1 \in [1..genome_size -> CrossGenes],
       genome2 \in [1..genome_size -> CrossGenes],
       point \in CrossoverPoints(genome_size),
       noise \in [1..genome_size -> {0} \cup Noise] :
      /\ lastCall.op = "__init__"
      /\ lastCall' = [ op |-> "crossover_and_mutate",
                       genome_size |-> genome_size,
                       genome1 |-> genome1,
                       genome2 |-> genome2,
                       noise |-> noise,
                       ret |-> crossover_and_mutate(genome1, genome2, point, noise,
                                                    genome_size) ]
      /\ UNCHANGED <<org, nCalls, leapVars, simVars>>

NextCross == CallCrossoverAndMutate

SpecCross == InitCross /\ [][NextCross]_vars

----------------------------------------------------------------------------
(* Claims about one organism (SpecOrg) *)

\* C1: over any sequence of process_cycle, gain_resource, trigger_error and
\* solve_problem calls, once is_alive is false it is never true again.
C1_DeadStaysDead == [][~org.is_alive => ~org'.is_alive]_vars

\* a dead organism on which a further method was called
C1_Witness ==
  /\ ~org.is_alive
  /\ lastCall.op = "gain_resource"
  /\ org.cumulative_discrepancy <= HardCeiling

\* C2: age never decreases, increases by exactly 1 on each process_cycle that
\* starts with the organism alive and cumulative_discrepancy <= 4500, and never
\* changes once is_alive is false.
C2_Age ==
  [][ /\ org'.age >= org.age
      /\ (lastCall'.op = "process_cycle" /\ org.is_alive
            /\ org.cumulative_discrepancy <= HardCeiling)
           => org'.age = org.age + 1
      /\ ~org.is_alive => org'.age = org.age ]_vars

\* a process_cycle that incremented the age and killed the organism, followed by
\* a process_cycle on the dead organism
C2_Witness ==
  /\ lastCall.op = "process_cycle"
  /\ ~org.is_alive
  /\ org.age >= 1
  /\ org.cumulative_discrepancy > SoftCeiling

\* C3: cumulative_discrepancy is non-negative and never decreases from one state
\* to the next.
C3_DiscrepancyMonotone ==
  /\ [](org.cumulative_discrepancy >= 0)
  /\ [][org'.cumulative_discrepancy >= org.cumulative_discrepancy]_vars

\* a cycle has added a non-zero squared deviation to the accumulator
C3_Witness ==
  /\ lastCall.op = "process_cycle"
  /\ org.cumulative_discrepancy % ErrorPenalty # 0
  /\ calculate_discrepancy(org.current) > 0

\* C18: process_cycle on an organism with cumulative_discrepancy > 4500 sets
\* is_alive to false and leaves age, every homeostatic variable and
\* cumulative_discrepancy unchanged; process_cycle on a dead organism changes
\* nothing.
C18_HardCeilingFrame ==
  [][ lastCall'.op = "process_cycle"
        => /\ org.cumulative_discrepancy > 4500 * DUnit
                => org' = [org EXCEPT !.is_alive = FALSE]
           /\ ~org.is_alive => org' = org ]_vars

\* an organism killed by the hard-ceiling check: dead without having aged
C18_Witness ==
  /\ lastCall.op = "process_cycle"
  /\ ~org.is_alive
  /\ org.age = 0
  /\ org.cumulative_discrepancy > 4500 * DUnit

\* C19: after any process_cycle call an organism that is still alive has
\* cumulative_discrepancy <= 2500: a cycle whose updated accumulator exceeds 2500
\* ends with is_alive false, the age incremented for that cycle.
C19_SoftCeiling ==
  /\ []((lastCall.op = "process_cycle" /\ org.is_alive)
          => org.cumulative_discrepancy <= 2500 * DUnit)
  /\ [][ ( /\ lastCall'.op = "process_cycle"
           /\ org.is_alive
           /\ org.cumulative_discrepancy <= 4500 * DUnit
           /\ org'.cumulative_discrepancy > 2500 * DUnit )
           => (~org'.is_alive /\ org'.age = org.age + 1) ]_vars

\* an organism killed by the cycle that left its accumulator between the two
\* ceilings
C19_Witness ==
  /\ lastCall.op = "process_cycle"
  /\ ~org.is_alive
  /\ org.age >= 1
  /\ org.cumulative_discrepancy > 2500 * DUnit
  /\ org.cumulative_discrepancy <= 4500 * DUnit

\* C20: trigger_error adds exactly 50 to cumulative_discrepancy and leaves
\* is_alive, age and the homeostatic variables unchanged, even when the new total
\* exceeds a death threshold (lastCall.ret consecutive calls add 50 each).
C20_TriggerErrorFrame ==
  [][ lastCall'.op = "trigger_error"
        => org' = [org EXCEPT !.cumulative_discrepancy = @ + lastCall'.ret * 50 * DUnit]
     ]_vars

\* a living organism that trigger_error has taken over the hard ceiling
C20_Witness ==
  /\ lastCall.op = "trigger_error"
  /\ org.is_alive
  /\ org.cumulative_discrepancy > 4500 * DUnit

----------------------------------------------------------------------------
(* Claims about run_simulation (Spec, SpecForced) *)

\* C4: for every population size N > 0, after initialize_population and after
\* every evolve_population call, whatever the number of survivors, the population
\* holds exactly N organisms.
C4_PopulationSize ==
  (env.population_size > 0 /\ pc # "start")
    => Len(organisms) = env.population_size

\* evolve_population has bred a full population from fewer survivors than the
\* population has places
C4_Witness ==
  /\ loop.gen >= 1
  /\ evo.branch = "survivors"
  /\ Len(evo.parents) < env.population_size
  /\ Len(organisms) = env.population_size

\* the generations run_simulation has logged: those completed, and the one whose
\* evolve_population is still to come
Logged == loop.gen + (IF pc = "evolve" THEN 1 ELSE 0)

\* C5: when run_simulation has completed g generations of a population of size
\* > 0, the history holds exactly g records with generation fields 1, 2, ..., g in
\* that order, and records are only appended, never removed or changed.
C5_History ==
  /\ [](env.population_size > 0
          => /\ Len(history) = Logged
             /\ \A i \in 1..Len(history) : history[i].generation = i)
  /\ [][ /\ Len(history') >= Len(history)
         /\ SubSeq(history', 1, Len(history)) = history ]_vars

\* a run of two generations has ended
C5_Witness ==
  /\ pc = "done"
  /\ env.population_size > 0
  /\ loop.gen = 2
  /\ Len(history) = 2

\* a run_generation_cycle has ended, or all of them have
AfterCycle ==
  \/ pc \in {"log", "evolve"}
  \/ pc = "cycles" /\ loop.cycle >= 1 /\ loop.idx = 1

\* C6: if every organism has cumulative_discrepancy > 4500 before its first
\* cycle, then after run_generation_cycle there are no survivors and every age is
\* 0; evolve_population takes its parents from the dead population, ordered by
\* age descending, and leaves exactly population_size organisms, all alive.
C6_Extinction ==
  /\ []((overAtStart /\ AfterCycle)
          => \A i \in 1..Len(organisms) :
               ~organisms[i].is_alive /\ organisms[i].age = 0)
  /\ [][ (overAtStart /\ pc = "evolve")
           => /\ evo'.branch = "extinction"
              /\ evo'.parents # <<>>
              /\ \A i \in 1..Len(evo'.parents) :
                   /\ \E k \in 1..Len(organisms) : evo'.parents[i] = organisms[k]
                   /\ ~evo'.parents[i].is_alive
                   /\ \A j \in i..Len(evo'.parents) :
                        evo'.parents[i].age >= evo'.parents[j].age
              /\ Len(organisms') = env.population_size
              /\ \A i \in 1..Len(organisms') : organisms'[i].is_alive ]_vars

\* the generation after an extinction, bred from two dead parents
C6_Witness ==
  /\ overAtStart
  /\ loop.gen = 1
  /\ evo.branch = "extinction"
  /\ Len(evo.parents) = 2
  /\ Len(organisms) = env.population_size
  /\ \A i \in 1..Len(organisms) : organisms[i].is_alive

\* C11: every Oracle interaction attempted during a generation's cycles is
\* recorded into the Monitor: when the cycles have ended the interaction buffer,
\* and the oracle_interactions metric logged for the generation, count exactly the
\* interactions attempted in that generation.
C11_InteractionsRecorded ==
  /\ pc \in {"log", "evolve"} => Len(interactions) = attempted
  /\ (pc = "evolve" /\ history # <<>>)
       => history[Len(history)].oracle_interactions = attempted

\* C12: a failure to write a log entry (generation-summary row or leap record)
\* never aborts the simulation: log_generation_data on a population still appends
\* the generation's record to the history, and the run goes on to
\* evolve_population.
C12_WriteFailureNotFatal ==
  [][ (pc = "log" /\ organisms # <<>>)
        => (pc' = "evolve" /\ Len(history') = Len(history) + 1) ]_vars

\* the organisms of the population that are alive, by their place in it
Alive == {i \in 1..Len(organisms) : organisms[i].is_alive}

\* C15: in evolve_population, when at least one organism is alive, the parents
\* are exactly the first min(|survivors|, max(2, int(0.2 * population_size)))
\* survivors in age-descending order: no dead organism is a parent and no
\* unselected survivor is older than a selected one.
C15_ParentsAreOldestSurvivors ==
  [][ (pc = "evolve" /\ Alive # {})
        => LET k == Min(Cardinality(Alive), Max(2, (2 * env.population_size) \div 10))
               p == evo'.parents
           IN /\ Len(p) = k
              /\ \A i \in 1..Len(p) : \A j \in i..Len(p) : p[i].age >= p[j].age
              /\ \E f \in [1..k -> Alive] :
                   /\ \A i \in 1..k : \A j \in 1..k : f[i] = f[j] => i = j
                   /\ \A i \in 1..k : p[i] = organisms[f[i]]
                   /\ \A u \in Alive \ {f[i] : i \in 1..k} :
                        \A i \in 1..k : p[i].age >= organisms[u].age ]_vars

\* evolve_population has taken fewer parents than the generation had survivors
C15_Witness ==
  /\ loop.gen >= 1
  /\ Len(history) = loop.gen
  /\ evo.branch = "survivors"
  /\ Len(evo.parents) < history[Len(history)].survivor_count

\* an organism as its constructor leaves it, whatever its genome
Fresh(o) ==
  /\ o.age = 0
  /\ o.cumulative_discrepancy = 0
  /\ o.is_alive
  /\ o.current["compute_load"] = 45 * HUnit
  /\ o.current["signal_integrity"] = 85 * HUnit

\* genome is parent p1's genes up to a crossover point and parent p2's from there
\* on, each gene mutated or not
ChildOf(genome, p1, p2) ==
  \E k \in 1..Max(1, Len(genome) - 1) :
    \A j \in 1..Len(genome) :
      genome[j] - (IF j <= k THEN p1.genome[j] ELSE p2.genome[j]) \in {0} \cup Noise

\* C16: the next generation evolve_population builds starts with one elite per
\* parent in the top half of the parent ranking, with that parent's genome and
\* fresh state (age 0, cumulative_discrepancy 0, alive, homeostatic variables at
\* their initial values); every other organism of it is a fresh
\* crossover-and-mutate child of two parents.
C16_ElitesThenChildren ==
  [][ (pc = "evolve" /\ evo'.parents # <<>>)
        => LET p == evo'.parents
               elites == Len(p) \div 2
           IN /\ Len(organisms') >= elites
              /\ \A i \in 1..Len(organisms') :
                   /\ Fresh(organisms'[i])
                   /\ Len(organisms'[i].genome) = env.genome_size
                   /\ i <= elites => organisms'[i].genome = p[i].genome
                   /\ i > elites
                        => \E i1 \in 1..Len(p), i2 \in 1..Len(p) :
                             ChildOf(organisms'[i].genome, p[i1], p[i2]) ]_vars

\* a next generation of an elite and of a child whose genome no parent has
C16_Witness ==
  /\ loop.gen >= 1
  /\ Len(evo.parents) >= 2
  /\ Len(organisms) > Len(evo.parents) \div 2
  /\ organisms[1].genome = evo.parents[1].genome
  /\ \E i \in 1..Len(organisms) :
       \A j \in 1..Len(evo.parents) : organisms[i].genome # evo.parents[j].genome

\* C17: elitism is unconditional: whenever evolve_population builds a next
\* generation from a non-empty parent set, a single survivor included, the
\* top-ranked parent's genome is in the next generation unmodified.
C17_TopParentKept ==
  [][ (pc = "evolve" /\ evo'.parents # <<>>)
        => \E i \in 1..Len(organisms') :
             organisms'[i].genome = evo'.parents[1].genome ]_vars

\* C21: only living organisms meet the Oracle: an organism that is dead, the one
\* that process_cycle has just killed in this cycle included, gets no
\* gain_resource and no trigger_error call, so within a generation a step leaves
\* a dead organism as it was or as process_cycle left it.
C21_DeadNotCalled ==
  [][ (pc = "cycles" /\ pc' \in {"cycles", "log"})
        => \A i \in 1..Len(organisms) :
             LET o == organisms[i]
             IN (~o.is_alive \/ ~process_cycle(o).is_alive)
                  => organisms'[i] \in {o, process_cycle(o)} ]_vars

\* C22: the Monitor's interaction buffer is reset at every generation boundary of
\* run_simulation, so the metrics of generation g are derived only from the
\* interactions recorded during generation g: the step from one generation to the
\* next leaves the buffer empty, and a generation after the first logs no more
\* interactions than were attempted in it.
C22_BufferReset ==
  /\ [][pc = "evolve" => interactions' = reset_generation(interactions)]_vars
  /\ [][ (pc = "log" /\ loop.gen >= 1 /\ history' # history)
           => history'[Len(history')].oracle_interactions <= attempted ]_vars

C25_LivingBelowHard ==
  /\ \A i \in 1..Len(organisms) :
       organisms[i].is_alive
         => organisms[i].cumulative_discrepancy <= SoftCeiling + ErrorPenalty
  /\ (pc = "cycles" /\ organisms[loop.idx].is_alive) => HardCheck(organisms[loop.idx])

\* a living organism above the soft ceiling is the next to be cycled
C25_Witness ==
  /\ pc = "cycles"
  /\ organisms[loop.idx].is_alive
  /\ organisms[loop.idx].cumulative_discrepancy > SoftCeiling
  /\ organisms[loop.idx].age > QuietCycles

\* C26: within a generation, after k completed cycles every living organism has
\* age exactly k and every dead organism has age <= k (an organism the running
\* cycle has already passed counts that cycle too); so at selection time all
\* survivors have the age cycles_per_generation, and the parents are the first
\* survivors in the order of the population.
C26_CyclesDone(i) ==
  IF pc = "cycles" THEN (IF i < loop.idx THEN loop.cycle + 1 ELSE loop.cycle)
  ELSE env.cycles_per_generation

C26_AgeIsCycles ==
  /\ [](pc \in {"cycles", "log", "evolve"}
          => \A i \in 1..Len(organisms) :
               /\ organisms[i].age <= C26_CyclesDone(i)
               /\ organisms[i].is_alive => organisms[i].age = C26_CyclesDone(i))
  /\ [][ (pc = "evolve" /\ Alive # {})
           => \A i \in 1..Len(evo'.parents) :
                \E a \in Alive :
                  /\ Cardinality({b \in Alive : b <= a}) = i
                  /\ evo'.parents[i] = organisms[a] ]_vars

\* selection after two cycles: an organism that died before the last cycle, and
\* a survivor
C26_Witness ==
  /\ pc = "evolve"
  /\ env.cycles_per_generation >= 2
  /\ \E i \in 1..Len(organisms) :
       ~organisms[i].is_alive /\ organisms[i].age < env.cycles_per_generation
  /\ Alive # {}

\* selection among survivors that differ, behind an organism that died
C26_WitnessOrder ==
  /\ pc = "evolve"
  /\ Len(organisms) > MaxPop
  /\ ~organisms[1].is_alive
  /\ \E a \in Alive, b \in Alive :
       a < b /\ organisms[a] # organisms[b]

----------------------------------------------------------------------------
(* Claims about the Monitor's interaction buffer (SpecMonitor) *)

\* C13: generation_metrics on an empty interaction buffer returns n_interactions
\* = 0, accuracy = 0.0 and undefined cohesion_mean and cohesion_median, and
\* generation_metrics never changes the buffer, so calling it again gives the
\* same result.
C13_MetricsReadOnly ==
  /\ []((lastCall.op = "generation_metrics" /\ interactions = <<>>)
          => /\ lastCall.ret.n_interactions = 0
             /\ lastCall.ret.accuracy = 0
             /\ lastCall.ret.cohesion_mean = None
             /\ lastCall.ret.cohesion_median = None)
  /\ [][ lastCall'.op = "generation_metrics"
           => /\ interactions' = interactions
              /\ lastCall.op = "generation_metrics" => lastCall'.ret = lastCall.ret ]_vars

\* generation_metrics was called on an empty buffer
C13_Witness ==
  /\ lastCall.op = "generation_metrics"
  /\ interactions = <<>>
  /\ lastCall.ret.n_interactions = 0

----------------------------------------------------------------------------
(* Claims about crossover_and_mutate (SpecCross) *)

\* C14: for parent genomes of length genome_size, crossover_and_mutate returns a
\* genome of the same length that, before mutation, is parent1's genes below a
\* crossover point k in 1..length-1 followed by parent2's genes from k on; when
\* the genome size is 1 it is parent1's single gene.
C14_Crossover ==
  lastCall.op = "crossover_and_mutate"
    => LET n == lastCall.genome_size
           unmutated == [i \in 1..Len(lastCall.ret) |-> lastCall.ret[i] - lastCall.noise[i]]
       IN /\ Len(lastCall.ret) = n
          /\ n = 1 => unmutated = lastCall.genome1
          /\ n > 1 => \E k \in 1..(n - 1) :
                        \A i \in 1..n :
                          unmutated[i] = IF i <= k THEN lastCall.genome1[i]
                                         ELSE lastCall.genome2[i]

\* a mutated child of two parents that differ in every gene
C14_Witness ==
  /\ lastCall.op = "crossover_and_mutate"
  /\ lastCall.genome_size > 1
  /\ \A i \in 1..lastCall.genome_size : lastCall.genome1[i] # lastCall.genome2[i]
  /\ \E i \in 1..lastCall.genome_size : lastCall.noise[i] # 0

\* a child of parents of one gene
C14_WitnessOneGene ==
  /\ lastCall.op = "crossover_and_mutate"
  /\ lastCall.genome_size = 1
  /\ lastCall.genome1 # lastCall.genome2

----------------------------------------------------------------------------
(* Claims about the leap detector (SpecLeap) *)

\* C7: a call made while the window holds fewer than max(5, window/2) prior
\* cohesion samples returns no leap, whatever the cohesion and accuracy passed.
C7_ColdNoLeap ==
  (Len(lastCheck.recent) < 5 \/ Len(lastCheck.recent) < det.window \div 2)
    => lastCheck.ret = NoLeap

\* a call with the highest cohesion on five prior samples, fewer than half the
\* window of the wide detector
C7_WitnessWideWindow ==
  /\ Len(lastCheck.recent) = 5
  /\ det.window \div 2 > 5
  /\ lastCheck.cohesion = CUnit
  /\ lastCheck.ret = NoLeap

\* a call with the highest cohesion on four prior samples, more than half the window
C7_Witness ==
  /\ Len(lastCheck.recent) = 4
  /\ det.window \div 2 < 4
  /\ lastCheck.cohesion = CUnit
  /\ lastCheck.ret = NoLeap

\* the first part of C8: each of the first `window` calls of a fresh detector, all
\* with the same cohesion, returned no leap
C8_ConstantRunQuiet ==
  (fed.since = 0 /\ fed.run >= 1 /\ fed.run <= det.window) => lastCheck.ret = NoLeap

\* the state after the call that follows exactly `window` constant calls and
\* passes a larger cohesion
C8_AfterRun ==
  /\ fed.since = 1
  /\ fed.run = det.window
  /\ lastCheck.cohesion # None
  /\ lastCheck.cohesion > fed.first

\* that call returned a leap record whose z-score is at least z_min
C8_LeapReturned ==
  /\ lastCheck.ret # NoLeap
  /\ ZAtLeast(lastCheck.ret.baseline, lastCheck.ret.cohesion, det.z_min)

\* C8 as stated: on a fresh detector, the same cohesion v for `window` consecutive
\* calls returns no leap on each, and a following call with a larger cohesion
\* returns a leap record whose z_score is >= z_min.
C8_Original ==
  /\ C8_ConstantRunQuiet
  /\ C8_AfterRun => C8_LeapReturned

\* C8 amended: the same, for a detector with window >= 5 (and the default z_min
\* and delta_min) when the accuracy passed with the larger cohesion is undefined or
\* at least acc_floor.
C8_ConstantThenLeap ==
  /\ C8_ConstantRunQuiet
  /\ (C8_AfterRun /\ det.window >= 5 /\ AccPass(lastCheck.accuracy, det.acc_floor))
       => C8_LeapReturned

\* a leap returned right after a full window of one value
C8_Witness ==
  /\ C8_AfterRun
  /\ det.window >= 5
  /\ Len(lastCheck.recent) = det.window
  /\ C8_LeapReturned

\* C9: in the warm state with a defined cohesion, a leap record is returned if and
\* only if accPass and (zPass or improvedVsBest), improvedVsBest being evaluated
\* against the best cohesion as it was before the call.
C9_LeapRule ==
  (lastCheck.cohesion # None /\ Len(lastCheck.recent) >= Max(5, det.window \div 2))
    => ( lastCheck.ret # NoLeap
         <=> ( /\ (lastCheck.accuracy = None \/ lastCheck.accuracy >= det.acc_floor)
               /\ \/ ZAtLeast(lastCheck.recent, lastCheck.cohesion, det.z_min)
                  \/ lastCheck.best = None
                  \/ lastCheck.cohesion >= lastCheck.best + det.delta_min ) )

\* a leap returned on the best-so-far criterion alone, with a defined accuracy
C9_Witness ==
  /\ lastCheck.ret # NoLeap
  /\ lastCheck.ret.reason = {"best"}
  /\ lastCheck.accuracy # None
  /\ lastCheck.best # None

\* a call refused as a leap on accuracy alone
C9_WitnessLowAccuracy ==
  /\ lastCheck.cohesion # None
  /\ Len(lastCheck.recent) >= Max(5, det.window \div 2)
  /\ lastCheck.ret = NoLeap
  /\ ZAtLeast(lastCheck.recent, lastCheck.cohesion, det.z_min)
  /\ lastCheck.accuracy # None

\* C10: every update_and_check call that returns a leap record appends exactly one
\* entry for that leap to the leap log, and a call that returns no leap appends
\* nothing.
C10_LeapLogged ==
  [][ /\ lastCheck'.ret # NoLeap => leapLog' = Append(leapLog, lastCheck'.ret)
      /\ lastCheck'.ret = NoLeap => leapLog' = leapLog ]_vars

\* C23: the detector never goes back from warm to cold: over any sequence of
\* update_and_check calls, with defined or undefined cohesion, the number of
\* samples in the window never decreases and never exceeds `window`, so once the
\* window holds enough samples for a baseline, every later call with a defined
\* cohesion is evaluated against one.
C23_Warm == Len(det.coh_ring) >= WarmThreshold(det.window)

C23_WarmStays ==
  /\ [](Len(det.coh_ring) <= det.window)
  /\ [][Len(det'.coh_ring) >= Len(det.coh_ring)]_vars
  /\ [][ C23_Warm
           => /\ C23_Warm'
              /\ lastCheck'.cohesion # None
                   => /\ lastCheck'.recent = det.coh_ring
                      /\ Len(lastCheck'.recent) >= WarmThreshold(det.window) ]_vars

\* a call with a defined cohesion was evaluated against a full window, whose
\* oldest sample it evicted
C23_Witness ==
  /\ lastCheck.cohesion # None
  /\ Len(lastCheck.recent) = det.window
  /\ Len(det.coh_ring) = det.window
  /\ det.coh_ring[det.window] = lastCheck.cohesion
  /\ lastCheck.recent[1] # lastCheck.recent[2]

\* a call with an undefined cohesion was made on a warm detector, which stays warm
C23_WitnessUndefined ==
  /\ lastCheck.cohesion = None
  /\ lastCheck.recent = det.coh_ring
  /\ C23_Warm

====
